---- MODULE Spec2Model ----
(***************************************************************************)
(* Model of dataaug/data/data_preparation.py: the dataset build            *)
(* (_build_datasets, _parse_data_augmentations, _get_meanstd), the wrapper *)
(* steps and batch sources of construct_dataloader, and the leader-first   *)
(* barrier of main_process_first.                                          *)
(*                                                                         *)
(* The specifications of the module:                                       *)
(*   SpecBarrier  N processes running lines 32-34 of construct_dataloader  *)
(*                (can_create, then the LMDBDataset construction inside    *)
(*                main_process_first);                                     *)
(*   SpecBuild    _build_datasets over a range of configurations;          *)
(*   SpecAug      _parse_data_augmentations over augmentation mappings;    *)
(*   Spec         one process running construct_dataloader step by step,   *)
(*                over the wrapper switches;                               *)
(*   SpecLoad     the same, over the sampling flags, and the use of the    *)
(*                returned train batch source;                             *)
(*   SpecWorkers  the same, over the inputs of the worker count;           *)
(*   SpecSubsets  _build_datasets over sizes and global generator states;  *)
(*   SpecBarrierFair  SpecBarrier with every process running;              *)
(*   SpecSubsetLoader  construct_dataloader, then calls of                 *)
(*                construct_subset_dataloader on the returned loader.      *)
(***************************************************************************)
EXTENDS Integers, Sequences, FiniteSets, TLC

(***************************************************************************)
(* Bounds of the model.                                                    *)
(***************************************************************************)
MaxProcs == 3
MaxLen == 3
MaxValidLen == 2
MaxExtra == 2
MaxAug == 2
MaxAugVal == 1
MaxRng == 5
MaxWorld == 2
MaxBatch == 2
MaxThreads == 3
MaxDevices == 2
MaxEpoch == 1
MaxStep == 4
MaxRounds == 2
MaxSubset == 2

VARIABLES
    initialized,      \* torch.distributed.is_initialized()
    world_size,       \* torch.distributed.get_world_size(): processes in the group
    ppc,              \* SpecBarrier: position of each process (by rank)
    can_create,       \* SpecBarrier: the local can_create of each process, once bound
    is_main_process,  \* SpecBarrier: the local is_main_process, once bound
    arrived,          \* SpecBarrier: ranks that have called torch.distributed.barrier()
    body_raised,      \* SpecBarrier: ranks whose with-body raised
    cfg_data,         \* the data configuration (cfg.data)
    cfg_impl,         \* the implementation configuration (cfg.impl)
    cfg_hyp,          \* the hyperparameter configuration (cfg.hyp)
    dryrun,           \* the dryrun argument of construct_dataloader
    rank,             \* torch.distributed.get_rank() of the calling process
    num_threads,      \* torch.get_num_threads()
    device_count,     \* torch.cuda.device_count()
    rng,              \* state of torch's global random generator
    train_len,        \* number of samples of the train split on disk
    valid_len,        \* number of samples of a validation split on disk
    pc,               \* position of the calling process
    raised,           \* the exception that ended the call, "" when none
    trainset,         \* local trainset
    validsets,        \* local validsets: name -> dataset
    validset,         \* local validset, bound by the loop of line 77
    bound,            \* names of the locals of construct_dataloader bound so far
    resolved,         \* data_mean, data_std of _build_datasets
    parsed,           \* what _parse_data_augmentations returned
    num_workers,      \* local num_workers
    train_sampler,    \* local train_sampler
    trainloader,      \* local trainloader
    validloaders,     \* local validloaders: name -> loader
    set_epoch_arg,    \* argument of the latest train_sampler.set_epoch call, -1 before
    pass,             \* the pass over trainloader under way: state, indices left, batches
    step,             \* the step argument of the latest construct_subset_dataloader call, -1 before
    subset_cfg,       \* the cfg argument of that call
    subset_raised,    \* the exception that ended that call, "" when none
    local_sampler,    \* local sampler of construct_subset_dataloader
    localloader       \* the loader construct_subset_dataloader returned

barrierVars == <<ppc, can_create, is_main_process, arrived, body_raised>>
envVars == <<initialized, world_size>>
cfgVars == <<cfg_data, cfg_impl, cfg_hyp, dryrun, rank, num_threads, device_count>>
dataVars == <<rng, train_len, valid_len>>
callVars == <<pc, raised, trainset, validsets>>
loaderVars == <<num_workers, train_sampler, trainloader, validloaders>>
subsetVars == <<step, subset_cfg, subset_raised, local_sampler, localloader>>
useVars == <<set_epoch_arg, pass, subsetVars>>
seqVars == <<cfgVars, dataVars, callVars, validset, bound, resolved, parsed, loaderVars, useVars>>
vars == <<envVars, barrierVars, seqVars>>

(***************************************************************************)
(* Values.                                                                 *)
(***************************************************************************)
\* Python's None where a per-channel tuple may stand (data.mean, data.std);
\* a given tuple holds one value per channel, in thousandths.
None == <<>>

\* A transform object: its constructor's name and what it was built with.
Transform(name, policy, params, mean, std) ==
    [name |-> name, policy |-> policy, params |-> params, mean |-> mean, std |-> std]

ToTensor == Transform("ToTensor", "", <<>>, None, None)

Normalize(mean, std) == Transform("Normalize", "", <<>>, mean, std)

\* lines 307-315
ToRGB == Transform("ToRGB", "", <<>>, None, None)

\* The transform attribute of a dataset: None, one transform, or a Compose.
NoTransform == [composed |-> FALSE, transforms |-> <<>>]

Single(t) == [composed |-> FALSE, transforms |-> <<t>>]

Compose(list) == [composed |-> TRUE, transforms |-> list]

\* An entry of an augmentation mapping: the key and its value, which is a
\* string (str), or a list or number (seq, iterable or not).
Entry(key, is_str, str, seq, iterable) ==
    [key |-> key, is_str |-> is_str, str |-> str, seq |-> seq, iterable |-> iterable]

AugEntries ==
    { Entry("RandAugment", TRUE, "rand-m7-mstd0.5-inc1", <<>>, TRUE),
      Entry("AugMix", TRUE, "augmix-m3-w3", <<>>, TRUE),
      Entry("tvAutoAugment", TRUE, "CIFAR10", <<>>, TRUE),
      Entry("tvRandAugment", TRUE, "STL10", <<>>, TRUE),
      Entry("ToRGB", FALSE, "", <<>>, TRUE),
      Entry("Resize", FALSE, "", <<64>>, FALSE),
      Entry("Cutout", FALSE, "", <<16>>, TRUE),
      Entry("RandomCrop", FALSE, "", <<32, 4>>, TRUE),
      Entry("RandomHorizontalFlip", FALSE, "", <<500>>, FALSE),
      Entry("GaussianNoise", FALSE, "", <<100>>, FALSE) }

\* Constructors torchvision.transforms has under the names used above.
TorchvisionTransforms == {"RandomCrop", "RandomHorizontalFlip", "Resize", "ToTensor", "Normalize"}

\* str.startswith on the policy strings used above.
StartsWith(s, prefix) ==
    \/ prefix = "rand" /\ s \in {"rand-m7-mstd0.5-inc1"}
    \/ prefix = "augmix" /\ s \in {"augmix-m3-w3"}

\* An augmentation mapping: whether it has keys() at all, and its items in
\* iteration order (keys are unique).
Mapping(items) == [has_keys |-> TRUE, items |-> items]

NoMapping == [has_keys |-> FALSE, items |-> <<>>]

Mappings(maxlen) ==
    { Mapping(s) : s \in { t \in UNION { [1 .. n -> AugEntries] : n \in 0 .. maxlen } :
                             \A i, j \in DOMAIN t : i # j => t[i].key # t[j].key } }
    \cup {NoMapping}

(***************************************************************************)
(* _get_autoaugment_timm, lines 210-223.                                   *)
(***************************************************************************)
\* Python's round(255 * x) for x = m / 1000: to the nearest integer, halves
\* to the even one.
Round255(m) ==
    LET q == (255 * m) \div 1000
        r == (255 * m) % 1000
    IN  IF r > 500 \/ (r = 500 /\ q % 2 = 1) THEN q + 1 ELSE q

Min(a, b) == IF a <= b THEN a ELSE b

Max(a, b) == IF a >= b THEN a ELSE b

Failed(exc) == [raised |-> exc, transform |-> ToTensor]

Built(t) == [raised |-> "", transform |-> t]

_get_autoaugment_timm(auto_augment, img_size_min, mean) ==
    IF ~auto_augment.is_str THEN Failed("AssertionError")
    ELSE IF mean = None THEN Failed("TypeError")
    ELSE
        LET translate_const == (img_size_min * 45) \div 100
            img_mean == [c \in DOMAIN mean |-> Min(255, Round255(mean[c]))]
        IN  IF StartsWith(auto_augment.str, "rand")
            THEN Built(Transform("rand_augment_transform", auto_augment.str,
                                 <<translate_const>>, img_mean, None))
            ELSE IF StartsWith(auto_augment.str, "augmix")
            THEN Built(Transform("augment_and_mix_transform", auto_augment.str,
                                 <<translate_const, 300>>, img_mean, None))
            ELSE Built(Transform("auto_augment_transform", auto_augment.str,
                                 <<translate_const>>, img_mean, None))

(***************************************************************************)
(* _get_autoaugment_torchvision, lines 226-235.                            *)
(***************************************************************************)
_get_autoaugment_torchvision(type, auto_augment_policy) ==
    IF auto_augment_policy \notin {"IMAGENET", "CIFAR10", "SVHN"}
    THEN Failed("AssertionError")
    ELSE IF type \in {"tvAutoAugment", "AutoAugment"}
    THEN Built(Transform("AutoAugment", auto_augment_policy, <<>>, None, None))
    ELSE IF type \in {"tvRandAugment", "RandAugment"}
    THEN Built(Transform("RandAugment", "", <<>>, None, None))
    ELSE Failed("ValueError")

(***************************************************************************)
(* _parse_data_augmentations, lines 238-274.                               *)
(***************************************************************************)
\* lines 243-260: the transform one key resolves to.
ResolveEntry(e, cfg) ==
    IF e.key \in {"RandAugment", "AutoAugment", "AugMix"}
    THEN _get_autoaugment_timm(e, cfg.pixels, cfg.mean)
    ELSE IF e.key \in {"tvRandAugment", "tvAutoAugment"}
    THEN _get_autoaugment_torchvision(e.key, e.str)
    ELSE IF e.key = "ToRGB"
    THEN Built(ToRGB)
    ELSE IF e.key = "Resize"
    THEN Built(Transform("Resize", "", e.seq \o e.seq, None, None))
    ELSE IF e.key = "Cutout"
    THEN Built(Transform("Cutout", "", e.seq, cfg.mean, None))
    ELSE IF e.key \notin TorchvisionTransforms
    THEN Failed("AttributeError")
    ELSE IF e.iterable
    THEN Built(Transform(e.key, "", e.seq, None, None))
    ELSE Built(Transform(e.key, "", <<e.seq[1]>>, None, None))

\* lines 239-262: _parse_cfg_dict, the loop over cfg_dict.keys() from item i
\* on, list_of_transforms being acc.
RECURSIVE ParseFrom(_, _, _, _)
ParseFrom(items, i, cfg, acc) ==
    IF i > Len(items) THEN [raised |-> "", list |-> acc]
    ELSE LET r == ResolveEntry(items[i], cfg)
         IN  IF r.raised # "" THEN [raised |-> r.raised, list |-> acc]
             ELSE ParseFrom(items, i + 1, cfg, Append(acc, r.transform))

_parse_cfg_dict(cfg_dict, cfg) ==
    IF cfg_dict.has_keys THEN ParseFrom(cfg_dict.items, 1, cfg, <<>>)
    ELSE [raised |-> "", list |-> <<>>]

NoPipelines(exc) == [raised |-> exc, train |-> NoTransform, valid |-> NoTransform]

FinalStepsNormalizeFirst(cfg, PIL_only) ==
    IF PIL_only THEN <<>>
    ELSE IF cfg.normalize THEN <<Normalize(cfg.mean, cfg.std), ToTensor>>
    ELSE <<ToTensor>>

\* lines 267-272: what is appended to one list.
FinalSteps(cfg, PIL_only) ==
    IF PIL_only THEN <<>>
    ELSE IF cfg.normalize THEN <<ToTensor, Normalize(cfg.mean, cfg.std)>>
    ELSE <<ToTensor>>

_parse_data_augmentations(cfg, PIL_only) ==
    LET train_transforms == _parse_cfg_dict(cfg.augmentations_train, cfg)
        valid_transforms == _parse_cfg_dict(cfg.augmentations_val, cfg)
    IN  IF train_transforms.raised # "" THEN NoPipelines(train_transforms.raised)
        ELSE IF valid_transforms.raised # "" THEN NoPipelines(valid_transforms.raised)
        ELSE [raised |-> "",
              train |-> Compose(train_transforms.list \o FinalSteps(cfg, PIL_only)),
              valid |-> Compose(valid_transforms.list \o FinalSteps(cfg, PIL_only))]

(***************************************************************************)
(* Datasets.  A dataset object is a record; a wrapper holds the dataset it *)
(* wraps in its field dataset.                                             *)
(***************************************************************************)
\* A dataset class of torchvision or of .datasets, constructed; id tells the
\* instances of one call apart, in construction order.
Dataset(cls, split, download, transform, length, id) ==
    [kind |-> "Dataset", cls |-> cls, split |-> split, download |-> download,
     transform |-> transform, length |-> length, id |-> id]

\* lines 277-285: Subset.__init__
Subset(dataset, indices) ==
    [kind |-> "Subset", dataset |-> dataset, indices |-> indices,
     transform |-> dataset.transform]

\* .lmdb_datasets.LMDBDataset(dataset, cfg_db, name, can_create)
LMDBDataset(dataset, cfg_db, name, create) ==
    [kind |-> "LMDBDataset", dataset |-> dataset, db |-> cfg_db, name |-> name,
     can_create |-> create, transform |-> dataset.transform]

\* .cached_dataset.CachedDataset(dataset, num_workers, pin_memory)
CachedDataset(dataset, workers, pin_memory) ==
    [kind |-> "CachedDataset", dataset |-> dataset, num_workers |-> workers,
     pin_memory |-> pin_memory, transform |-> dataset.transform]

\* len(dataset): a Subset has as many samples as indices, a store or cache
\* wrapper as many as the dataset it wraps.
RECURSIVE len(_)
len(dataset) ==
    IF dataset.kind = "Dataset" THEN dataset.length
    ELSE IF dataset.kind = "Subset" THEN Len(dataset.indices)
    ELSE len(dataset.dataset)

\* The kinds of the layers of a dataset, innermost first.
RECURSIVE Layers(_)
Layers(dataset) ==
    IF dataset.kind = "Dataset" THEN <<"Dataset">>
    ELSE Append(Layers(dataset.dataset), dataset.kind)

\* torch.arange(0, n)
arange(n) == [i \in 1 .. n |-> i - 1]

\* A dict is the sequence of its items [k, v] in insertion order.
Keys(d) == { d[i].k : i \in DOMAIN d }

\* d[k]
GetItem(d, k) == d[CHOOSE i \in DOMAIN d : d[i].k = k].v

SetItemKeepFirst(d, k, v) ==
    IF k \in Keys(d) THEN d ELSE Append(d, [k |-> k, v |-> v])

\* d[k] = v: a new key goes last, a known key keeps its place.
SetItem(d, k, v) ==
    IF k \in Keys(d)
    THEN [i \in DOMAIN d |-> IF d[i].k = k THEN [k |-> k, v |-> v] ELSE d[i]]
    ELSE Append(d, [k |-> k, v |-> v])

(***************************************************************************)
(* torch.randperm.  A generator state determines the permutation drawn:    *)
(* state s draws the permutation of 0..n-1 of lexicographic rank s mod n!. *)
(***************************************************************************)
RECURSIVE Factorial(_)
Factorial(n) == IF n <= 1 THEN 1 ELSE n * Factorial(n - 1)

\* The sequence s without its i-th element.
Without(s, i) == [j \in 1 .. (Len(s) - 1) |-> IF j < i THEN s[j] ELSE s[j + 1]]

\* The permutation of rank k of the elements of pool.
RECURSIVE NthPerm(_, _)
NthPerm(pool, k) ==
    IF Len(pool) = 0 THEN <<>>
    ELSE LET f == Factorial(Len(pool) - 1)
             i == (k \div f) + 1
         IN  <<pool[i]>> \o NthPerm(Without(pool, i), k % f)

randperm(n, state) == NthPerm(arange(n), state % Factorial(n))

\* line 194: torch.Generator().manual_seed(89)
ManualSeed == 89

(***************************************************************************)
(* _get_meanstd, lines 203-207.                                            *)
(***************************************************************************)
\* The names _get_meanstd can read: its parameter, and the module's globals.
GetMeanstdScope ==
    {"dataset", "torch", "torchvision", "transforms", "TinyImageNet", "CINIC10",
     "CIFAR10C", "Cutout", "CachedDataset", "Subset", "ToRGB", "os", "contextlib",
     "warnings", "construct_dataloader", "construct_subset_dataloader",
     "_build_datasets", "_get_meanstd", "_parse_data_augmentations",
     "main_process_first"}

\* Channel-wise mean and standard deviation over the samples of a dataset,
\* in thousandths; the samples themselves are not modelled, the statistics
\* of a dataset are a function of its length.
SampleMean(dataset) == [c \in 1 .. 3 |-> 400 + len(dataset)]

SampleStd(dataset) == [c \in 1 .. 3 |-> 200 + len(dataset)]

\* line 204 reads the name trainset.
_get_meanstd(dataset) ==
    IF "trainset" \notin GetMeanstdScope
    THEN [raised |-> "NameError", data_mean |-> None, data_std |-> None]
    ELSE [raised |-> "", data_mean |-> SampleMean(dataset), data_std |-> SampleStd(dataset)]

(***************************************************************************)
(* _build_datasets, lines 118-200.                                         *)
(***************************************************************************)
\* lines 120-148: the names the selector knows.
DatasetNames ==
    {"CIFAR10", "MNIST", "EMNIST", "SVHN", "CINIC10", "CIFAR100", "ImageNet", "TinyImageNet"}

\* lines 121-146: the train split of a name.
TrainDataset(name, can_download) ==
    Dataset(name, "train", can_download /\ name # "ImageNet", Single(ToTensor), train_len, 1)

\* lines 122-146: the validation split of a name.
ValidDataset(name, can_download) ==
    Dataset(name,
            IF name \in {"CINIC10"} THEN "valid"
            ELSE IF name \in {"ImageNet", "TinyImageNet"} THEN "val" ELSE "test",
            can_download /\ name # "ImageNet",
            IF name = "CINIC10" THEN Single(ToTensor) ELSE NoTransform,
            valid_len, 2)

\* lines 163-187: the names the extra-validation loop knows.
ExtraNames == {"CINIC10", "CIFAR10-C", "CIFAR10"}

\* lines 164-185: the dataset of the i-th extra name.
ExtraDataset(name, can_download, valid_transforms, i) ==
    Dataset(IF name = "CIFAR10-C" THEN "CIFAR10C" ELSE name,
            IF name = "CIFAR10" THEN "test" ELSE "valid",
            can_download, valid_transforms, valid_len, 2 + i)

\* lines 162-188: the loop over cfg_data.extra_validation from item i on.
RECURSIVE AddExtras(_, _, _, _, _)
AddExtras(sets, names, i, can_download, valid_transforms) ==
    IF i > Len(names) THEN [raised |-> "", validsets |-> sets]
    ELSE IF names[i] \notin ExtraNames THEN [raised |-> "ValueError", validsets |-> sets]
    ELSE AddExtras(SetItem(sets, names[i],
                           ExtraDataset(names[i], can_download, valid_transforms, i)),
                   names, i + 1, can_download, valid_transforms)

\* lines 150-153: the Statistics Resolver.
ResolveStats(cfg, dataset) ==
    IF cfg.mean = None THEN _get_meanstd(dataset)
    ELSE [raised |-> "", data_mean |-> cfg.mean, data_std |-> cfg.std]

ReduceSizeSkipped(cfg, dataset, gen) == dataset

ReduceSizeGlobalGenerator(cfg, dataset, gen) ==
    IF cfg.size < len(dataset)
    THEN Subset(dataset, SubSeq(randperm(len(dataset), gen), 1, cfg.size))
    ELSE dataset

\* lines 192-198: the size reduction of the train set; gen is the state of
\* the global generator.
ReduceSize(cfg, dataset, gen) ==
    IF cfg.size < len(dataset)
    THEN LET generator == IF cfg.deterministic_subsets THEN ManualSeed ELSE gen
             indices == randperm(len(dataset), generator)
         IN  Subset(dataset, SubSeq(indices, 1, cfg.size))
    ELSE dataset

\* The global generator after the call: a draw without a generator of its
\* own advances it.
RngAfter(cfg, dataset, gen) ==
    IF cfg.size < len(dataset) /\ ~cfg.deterministic_subsets
    THEN (gen + 1) % (MaxRng + 1)
    ELSE gen

NoDataset == [kind |-> "unbound"]

BuildFailed(exc, stats, gen) ==
    [raised |-> exc, trainset |-> NoDataset, validsets |-> <<>>,
     data_mean |-> stats.data_mean, data_std |-> stats.data_std, rng |-> gen]

NoStats == [raised |-> "", data_mean |-> None, data_std |-> None]

_build_datasets(cfg, can_download, gen) ==
    IF cfg.name \notin DatasetNames THEN BuildFailed("ValueError", NoStats, gen)
    ELSE
    LET trainset0 == TrainDataset(cfg.name, can_download)
        validset0 == ValidDataset(cfg.name, can_download)
        stats == ResolveStats(cfg, trainset0)
    IN  IF stats.raised # "" THEN BuildFailed(stats.raised, NoStats, gen)
        ELSE
        LET tf == _parse_data_augmentations(cfg, FALSE)
        IN  IF tf.raised # "" THEN BuildFailed(tf.raised, stats, gen)
            ELSE
            LET trainset1 == [trainset0 EXCEPT !.transform = tf.train]
                validset1 == [validset0 EXCEPT !.transform = tf.valid]
                extras == AddExtras(<<[k |-> cfg.name, v |-> validset1]>>, cfg.extra_validation, 1,
                                    can_download, tf.valid)
            IN  IF extras.raised # "" THEN BuildFailed(extras.raised, stats, gen)
                ELSE [raised |-> "",
                      trainset |-> ReduceSize(cfg, trainset1, gen),
                      validsets |-> extras.validsets,
                      data_mean |-> stats.data_mean, data_std |-> stats.data_std,
                      rng |-> RngAfter(cfg, trainset1, gen)]


(***************************************************************************)
(* The process group.  Ranks are 0..world_size-1 and are unique            *)
(* (utils.py, system_startup: init_process_group(rank=...)); without a     *)
(* group there is the one local process, which we also call 0.             *)
(***************************************************************************)
Procs == 0 .. (world_size - 1)

\* torch.distributed.get_rank() of process p
get_rank(p) == p

(***************************************************************************)
(* SpecBarrier: construct_dataloader lines 32-34 and main_process_first.   *)
(***************************************************************************)
\* line 32: can_create = not is_initialized() or get_rank() == 0
CanCreateValue(p) == (~initialized) \/ get_rank(p) = 0

EvalCanCreate(p) ==
    /\ ppc[p] = "L32"
    /\ can_create' = (p :> CanCreateValue(p)) @@ can_create
    /\ ppc' = [ppc EXCEPT ![p] = "L33"]
    /\ UNCHANGED <<envVars, seqVars, is_main_process, arrived, body_raised>>

\* lines 333-335: does the process call barrier() before the body?
WaitsNobody(p) == FALSE

WaitsBeforeBody(p) == initialized /\ ~(get_rank(p) = 0)

\* lines 330-336 and 340-341: entering the context manager, up to the yield
\* or up to the call of barrier() by a replica.
Enter(p) ==
    /\ ppc[p] = "L33"
    /\ IF initialized
       THEN /\ is_main_process' = (p :> (get_rank(p) = 0)) @@ is_main_process
            /\ IF WaitsBeforeBody(p)
               THEN /\ arrived' = arrived \cup {p}
                    /\ ppc' = [ppc EXCEPT ![p] = "L335"]
               ELSE /\ ppc' = [ppc EXCEPT ![p] = "L34"]
                    /\ UNCHANGED arrived
       ELSE /\ ppc' = [ppc EXCEPT ![p] = "L34"]
            /\ UNCHANGED <<is_main_process, arrived>>
    /\ UNCHANGED <<envVars, seqVars, can_create, body_raised>>

\* torch.distributed.barrier() returns once every process of the group has
\* called it.
BarrierOpen == arrived = Procs

\* line 335 returns: the replica goes on to the yield (line 336).
ReplicaReleased(p) ==
    /\ ppc[p] = "L335"
    /\ BarrierOpen
    /\ ppc' = [ppc EXCEPT ![p] = "L34"]
    /\ UNCHANGED <<envVars, seqVars, can_create, is_main_process, arrived, body_raised>>

\* line 34 starts: LMDBDataset(trainset, cfg_data.db, name="train", can_create=can_create)
BodyStart(p) ==
    /\ ppc[p] = "L34"
    /\ ppc' = [ppc EXCEPT ![p] = "in_body"]
    /\ UNCHANGED <<envVars, seqVars, can_create, is_main_process, arrived, body_raised>>

\* line 34 ends, normally or with an exception; control passes to the
\* finally clause (line 337) or, without a group, out of the plain yield.
BodyEnd(p) ==
    /\ ppc[p] = "in_body"
    /\ \E exc \in BOOLEAN :
          body_raised' = IF exc THEN body_raised \cup {p} ELSE body_raised
    /\ ppc' = [ppc EXCEPT ![p] = IF initialized THEN "L337" ELSE "left"]
    /\ UNCHANGED <<envVars, seqVars, can_create, is_main_process, arrived>>

FinallyUnlessRaised(p) ==
    /\ ppc[p] = "L337"
    /\ IF is_main_process[p] /\ p \notin body_raised
       THEN /\ arrived' = arrived \cup {p}
            /\ ppc' = [ppc EXCEPT ![p] = "L339"]
       ELSE /\ ppc' = [ppc EXCEPT ![p] = "left"]
            /\ UNCHANGED arrived
    /\ UNCHANGED <<envVars, seqVars, can_create, is_main_process, body_raised>>

\* lines 337-339: the finally clause; the main process calls barrier().
Finally(p) ==
    /\ ppc[p] = "L337"
    /\ IF is_main_process[p]
       THEN /\ arrived' = arrived \cup {p}
            /\ ppc' = [ppc EXCEPT ![p] = "L339"]
       ELSE /\ ppc' = [ppc EXCEPT ![p] = "left"]
            /\ UNCHANGED arrived
    /\ UNCHANGED <<envVars, seqVars, can_create, is_main_process, body_raised>>

\* line 339 returns: the main process leaves the context manager.
MainReleased(p) ==
    /\ ppc[p] = "L339"
    /\ BarrierOpen
    /\ ppc' = [ppc EXCEPT ![p] = "left"]
    /\ UNCHANGED <<envVars, seqVars, can_create, is_main_process, arrived, body_raised>>

(***************************************************************************)
(* construct_dataloader, lines 25-89, one process.  Of main_process_first  *)
(* this process sees only that its with-body runs (SpecBarrier has the     *)
(* barrier itself).                                                        *)
(***************************************************************************)
\* line 27
Call_build_datasets ==
    /\ pc = "L27"
    /\ LET r == _build_datasets(cfg_data, ~cfg_impl.dist, rng)
       IN  /\ raised' = r.raised
           /\ trainset' = r.trainset
           /\ validsets' = r.validsets
           /\ resolved' = [data_mean |-> r.data_mean, data_std |-> r.data_std]
           /\ rng' = r.rng
           /\ pc' = IF r.raised = "" THEN "L28" ELSE "raised"
           /\ bound' = IF r.raised = "" THEN bound \cup {"trainset", "validsets"} ELSE bound
    /\ UNCHANGED <<envVars, barrierVars, cfgVars, train_len, valid_len, validset, parsed,
                   loaderVars, useVars>>

\* lines 28-34: the durable-index wrapping.
DurableIndex ==
    /\ pc = "L28"
    /\ IF cfg_data.db.name = "LMDB"
       THEN /\ trainset' = LMDBDataset(trainset, cfg_data.db, "train", CanCreateValue(rank))
            /\ bound' = bound \cup {"LMDBDataset", "can_create"}
       ELSE UNCHANGED <<trainset, bound>>
    /\ pc' = "L36"
    /\ UNCHANGED <<envVars, barrierVars, cfgVars, dataVars, raised, validsets, validset,
                   resolved, parsed, loaderVars, useVars>>

\* line 39
NumMachines == IF initialized THEN world_size ELSE 1

\* lines 40-41: the indices of the dry-run Subsets.
DryrunIndices == arange(cfg_data.batch_size * NumMachines)

\* lines 36-41: the dry-run truncation.
DryRun ==
    /\ pc = "L36"
    /\ IF dryrun
       THEN /\ trainset' = Subset(trainset, DryrunIndices)
            /\ validsets' = [i \in DOMAIN validsets |->
                                [k |-> validsets[i].k,
                                 v |-> Subset(validsets[i].v, DryrunIndices)]]
            /\ bound' = bound \cup {"num_machines"}
       ELSE UNCHANGED <<trainset, validsets, bound>>
    /\ pc' = "L43"
    /\ UNCHANGED <<envVars, barrierVars, cfgVars, dataVars, raised, validset, resolved,
                   parsed, loaderVars, useVars>>

\* line 45: the comprehension wraps, for every key, the dataset the name
\* validset stands for; the name is a local of construct_dataloader that the
\* loop of line 77 binds.
Caching ==
    /\ pc = "L43"
    /\ IF cfg_data.caching
       THEN /\ trainset' = CachedDataset(trainset, cfg_impl.threads, cfg_impl.pin_memory)
            /\ IF validsets # <<>> /\ "validset" \notin bound
               THEN /\ raised' = "NameError"
                    /\ pc' = "raised"
                    /\ UNCHANGED validsets
               ELSE /\ validsets' = [i \in DOMAIN validsets |->
                                        [k |-> validsets[i].k,
                                         v |-> CachedDataset(validset, cfg_impl.threads,
                                                             cfg_impl.pin_memory)]]
                    /\ pc' = "L47"
                    /\ UNCHANGED raised
       ELSE /\ pc' = "L47"
            /\ UNCHANGED <<trainset, validsets, raised>>
    /\ UNCHANGED <<envVars, barrierVars, cfgVars, dataVars, bound, validset, resolved,
                   parsed, loaderVars, useVars>>

NumWorkersUnguarded(threads, get_num_threads, cuda_device_count) ==
    Min(get_num_threads, threads) \div Max(1, cuda_device_count)

\* lines 47-50
NumWorkers(threads, get_num_threads, cuda_device_count) ==
    IF threads > 0 /\ get_num_threads > 1
    THEN Min(get_num_threads, threads) \div Max(1, cuda_device_count)
    ELSE 0

Workers ==
    /\ pc = "L47"
    /\ num_workers' = NumWorkers(cfg_impl.threads, num_threads, device_count)
    /\ bound' = bound \cup {"num_workers"}
    /\ pc' = "L52"
    /\ UNCHANGED <<envVars, barrierVars, cfgVars, dataVars, raised, trainset, validsets,
                   validset, resolved, parsed, train_sampler, trainloader, validloaders,
                   useVars>>

\* A sampler object.  patched: set_epoch is the no-op of lines 61-64.
Sampler(kind, shuffle, replacement, num_replicas, r, num_samples, patched) ==
    [kind |-> kind, shuffle |-> shuffle, replacement |-> replacement,
     num_replicas |-> num_replicas, rank |-> r, epoch |-> 0,
     num_samples |-> num_samples, patched |-> patched]

\* ceil(a / b)
CeilDiv(a, b) == (a + b - 1) \div b

DistributedSamplerDropLast(dataset, shuffle) ==
    Sampler("DistributedSampler", shuffle, FALSE, world_size, rank,
            len(dataset) \div world_size, FALSE)

\* torch.utils.data.DistributedSampler(dataset, shuffle=shuffle): one shard
\* per process of the group, padded to equal size.
DistributedSampler(dataset, shuffle) ==
    Sampler("DistributedSampler", shuffle, FALSE, world_size, rank,
            CeilDiv(len(dataset), world_size), FALSE)

\* torch.utils.data.RandomSampler(dataset, replacement=replacement)
RandomSampler(dataset, replacement) ==
    Sampler("RandomSampler", TRUE, replacement, 1, 0, len(dataset), FALSE)

\* torch.utils.data.SequentialSampler(dataset)
SequentialSampler(dataset) ==
    Sampler("SequentialSampler", FALSE, FALSE, 1, 0, len(dataset), FALSE)

\* line 64: train_sampler.set_epoch = set_epoch
Patch(sampler) == [sampler EXCEPT !.patched = TRUE]

\* lines 52-64: the train sampler for the flags.
TrainSampler(dataset, dist, shuffle, replacement) ==
    IF dist THEN DistributedSampler(dataset, shuffle)
    ELSE IF shuffle THEN Patch(RandomSampler(dataset, replacement))
    ELSE Patch(SequentialSampler(dataset))

SelectSampler ==
    /\ pc = "L52"
    /\ IF cfg_impl.dist /\ ~initialized
       THEN /\ raised' = "RuntimeError"
            /\ pc' = "raised"
            /\ UNCHANGED <<train_sampler, bound>>
       ELSE /\ train_sampler' = TrainSampler(trainset, cfg_impl.dist, cfg_hyp.shuffle,
                                             cfg_hyp.sample_with_replacement)
            /\ bound' = bound \cup {"train_sampler"}
            /\ pc' = "L66"
            /\ UNCHANGED raised
    /\ UNCHANGED <<envVars, barrierVars, cfgVars, dataVars, trainset, validsets, validset,
                   resolved, parsed, num_workers, trainloader, validloaders, useVars>>

\* torch.utils.data.DataLoader(...); sampler names the sampler object: the
\* train sampler, or the sequential sampler a loader makes for itself.
DataLoader(dataset, batch_size, sampler, drop_last, workers, pin_memory, persistent_workers) ==
    [dataset |-> dataset, batch_size |-> batch_size, sampler |-> sampler,
     drop_last |-> drop_last, num_workers |-> workers, pin_memory |-> pin_memory,
     persistent_workers |-> persistent_workers]

\* lines 66-74
TrainLoader ==
    DataLoader(trainset, Min(cfg_data.batch_size, len(trainset)), "train_sampler", TRUE,
               num_workers, cfg_impl.pin_memory,
               IF num_workers > 0 THEN cfg_impl.persistent_workers ELSE FALSE)

\* lines 78-86
ValidLoader(dataset) ==
    DataLoader(dataset, Min(cfg_data.batch_size, len(dataset)), "SequentialSampler", TRUE,
               num_workers, cfg_impl.pin_memory, FALSE)

\* lines 66-89
Loaders ==
    /\ pc = "L66"
    /\ trainloader' = TrainLoader
    /\ validloaders' = [i \in DOMAIN validsets |->
                           [k |-> validsets[i].k, v |-> ValidLoader(validsets[i].v)]]
    /\ IF validsets # <<>>
       THEN /\ validset' = validsets[Len(validsets)].v
            /\ bound' = bound \cup {"trainloader", "validloaders", "name", "validset",
                                    "validloader"}
       ELSE /\ bound' = bound \cup {"trainloader", "validloaders"}
            /\ UNCHANGED validset
    /\ pc' = "returned"
    /\ UNCHANGED <<envVars, barrierVars, cfgVars, dataVars, raised, trainset, validsets,
                   resolved, parsed, num_workers, train_sampler, useVars>>

(***************************************************************************)
(* Use of the returned train batch source by the training loop.            *)
(***************************************************************************)
SetEpochUnpatched(sampler, epoch) == [sampler EXCEPT !.epoch = epoch]

\* sampler.set_epoch(epoch): the patched function does nothing,
\* DistributedSampler.set_epoch stores the epoch.
set_epoch(sampler, epoch) ==
    IF sampler.patched THEN sampler ELSE [sampler EXCEPT !.epoch = epoch]

SetEpoch(epoch) ==
    /\ pc = "returned"
    /\ train_sampler' = set_epoch(train_sampler, epoch)
    /\ set_epoch_arg' = epoch
    /\ UNCHANGED <<envVars, barrierVars, cfgVars, dataVars, callVars, bound, validset,
                   resolved, parsed, num_workers, trainloader, validloaders, pass, subsetVars>>

\* len(sampler): the indices one pass of the sampler yields.
SamplerLen(sampler) == sampler.num_samples

\* iter(trainloader): a fresh pass.
BeginPass ==
    /\ pc = "returned"
    /\ pass.state # "running"
    /\ pass' = [state |-> "running", left |-> SamplerLen(train_sampler), batches |-> <<>>]
    /\ UNCHANGED <<envVars, barrierVars, cfgVars, dataVars, callVars, bound, validset,
                   resolved, parsed, loaderVars, set_epoch_arg, subsetVars>>

\* What the batch sampler does with the indices left: a full batch, or the
\* end of the pass (drop_last discards a partial batch).
FullBatch(loader, left) == left >= loader.batch_size

\* next(iterator)
NextBatch ==
    /\ pc = "returned"
    /\ pass.state = "running"
    /\ IF FullBatch(trainloader, pass.left)
       THEN pass' = [pass EXCEPT !.left = @ - trainloader.batch_size,
                                 !.batches = Append(@, trainloader.batch_size)]
       ELSE pass' = [pass EXCEPT !.left = 0, !.state = "exhausted"]
    /\ UNCHANGED <<envVars, barrierVars, cfgVars, dataVars, callVars, bound, validset,
                   resolved, parsed, loaderVars, set_epoch_arg, subsetVars>>

(***************************************************************************)
(* construct_subset_dataloader, lines 92-115.                              *)
(***************************************************************************)
\* torch.utils.data.Subset(dataset, indices): the indices are stored as
\* given, none is compared with the length of the dataset.
TorchSubset(dataset, indices) ==
    [kind |-> "Subset", dataset |-> dataset, indices |-> indices]

\* line 94: random_idx = step % cfg.data.db.rounds
RandomIdx(cfg, s) == s % cfg.data.db.rounds

\* line 95: torch.arange(0, cfg.data.size) + random_idx * cfg.data.size
DatasetSubsetIds(cfg, s) ==
    [i \in 1 .. cfg.data.size |-> arange(cfg.data.size)[i] + RandomIdx(cfg, s) * cfg.data.size]

\* lines 97-106: the sampler of the subset.
SubsetSampler(dataset, cfg) ==
    IF cfg.impl.dist THEN DistributedSampler(dataset, cfg.hyp.shuffle)
    ELSE IF cfg.hyp.shuffle THEN Patch(RandomSampler(dataset, FALSE))
    ELSE Patch(SequentialSampler(dataset))

NoSubsetLoader(exc) ==
    [raised |-> exc, sampler |-> Sampler("unbound", FALSE, FALSE, 0, 0, 0, FALSE),
     localloader |-> DataLoader([kind |-> "unbound"], 0, "unbound", FALSE, 0, FALSE, FALSE)]

construct_subset_dataloader(dataloader, cfg, s) ==
    IF cfg.data.db.rounds = 0 THEN NoSubsetLoader("ZeroDivisionError")
    ELSE LET dataset == TorchSubset(dataloader.dataset, DatasetSubsetIds(cfg, s))
         IN  [raised |-> "",
              sampler |-> SubsetSampler(dataset, cfg),
              localloader |-> DataLoader(dataset, Min(cfg.data.batch_size, len(dataset)),
                                         "sampler", TRUE, dataloader.num_workers,
                                         cfg.impl.pin_memory, FALSE)]

\* A call construct_subset_dataloader(trainloader, cfg, s) by the training
\* loop, with the loader construct_dataloader returned; cfg gives the size
\* of a round and the number of rounds.
Call_construct_subset_dataloader ==
    /\ pc = "returned"
    /\ \E s \in 0 .. MaxStep, size \in 1 .. MaxSubset, rounds \in 0 .. MaxRounds :
          LET cfg == [data |-> [cfg_data EXCEPT !.size = size, !.db.rounds = rounds],
                      impl |-> cfg_impl, hyp |-> cfg_hyp]
              r == construct_subset_dataloader(trainloader, cfg, s)
          IN  /\ step' = s
              /\ subset_cfg' = cfg
              /\ subset_raised' = r.raised
              /\ local_sampler' = r.sampler
              /\ localloader' = r.localloader
    /\ UNCHANGED <<envVars, barrierVars, cfgVars, dataVars, callVars, bound, validset,
                   resolved, parsed, loaderVars, set_epoch_arg, pass>>

(***************************************************************************)
(* Configurations and initial states.                                      *)
(***************************************************************************)
\* data.mean / data.std as a configuration gives them (CIFAR10's).
GivenMean == <<491, 482, 447>>

GivenStd == <<247, 243, 262>>

CfgData(name, mean, aug_train, aug_val, normalize, size, deterministic, extra, batch_size, caching, db_name) ==
    [name |-> name, mean |-> mean, std |-> IF mean = None THEN None ELSE GivenStd,
     augmentations_train |-> aug_train, augmentations_val |-> aug_val,
     normalize |-> normalize, size |-> size, deterministic_subsets |-> deterministic,
     extra_validation |-> extra, batch_size |-> batch_size, caching |-> caching,
     db |-> [name |-> db_name, rounds |-> 1], pixels |-> 32]

CfgImpl(threads, dist) ==
    [threads |-> threads, pin_memory |-> TRUE, persistent_workers |-> TRUE, dist |-> dist]

CfgHyp(shuffle, replacement) == [shuffle |-> shuffle, sample_with_replacement |-> replacement]

NoSampler == Sampler("unbound", FALSE, FALSE, 0, 0, 0, FALSE)

NoLoader == DataLoader(NoDataset, 0, "unbound", FALSE, 0, FALSE, FALSE)

\* Nothing is bound yet but the arguments of the call.
CallIdle ==
    /\ raised = ""
    /\ trainset = NoDataset
    /\ validsets = <<>>
    /\ validset = NoDataset
    /\ resolved = [data_mean |-> None, data_std |-> None]
    /\ parsed = NoPipelines("")
    /\ bound = {"cfg_data", "cfg_impl", "cfg_hyp", "dryrun"}
    /\ num_workers = 0
    /\ train_sampler = NoSampler
    /\ trainloader = NoLoader
    /\ validloaders = <<>>
    /\ set_epoch_arg = -1
    /\ pass = [state |-> "idle", left |-> 0, batches |-> <<>>]
    /\ step = -1
    /\ subset_cfg = [data |-> cfg_data, impl |-> cfg_impl, hyp |-> cfg_hyp]
    /\ subset_raised = ""
    /\ local_sampler = NoSampler
    /\ localloader = NoLoader

BarrierIdle ==
    /\ ppc = <<>>
    /\ can_create = <<>>
    /\ is_main_process = <<>>
    /\ arrived = {}
    /\ body_raised = {}

\* utils.py, system_startup lines 85-105: the process group exists exactly
\* when impl.setup.dist is set; a process has a rank of the group.
GroupOf(dist) ==
    /\ initialized = dist
    /\ world_size \in IF dist THEN 1 .. MaxWorld ELSE {1}
    /\ rank \in 0 .. (world_size - 1)

\* The augmentation mappings of the configurations that vary something else.
PlainAugTrain == Mapping(<<Entry("RandomCrop", FALSE, "", <<32, 4>>, TRUE),
                           Entry("RandomHorizontalFlip", FALSE, "", <<500>>, FALSE)>>)

PlainAugVal == Mapping(<<>>)

\* SpecBarrier: the processes of a group (or the one process without a
\* group) at line 32, after _build_datasets.
InitBarrier ==
    /\ initialized \in BOOLEAN
    /\ world_size \in IF initialized THEN 1 .. MaxProcs ELSE {1}
    /\ ppc = [p \in Procs |-> "L32"]
    /\ can_create = <<>>
    /\ is_main_process = <<>>
    /\ arrived = {}
    /\ body_raised = {}
    /\ cfg_data = CfgData("CIFAR10", GivenMean, PlainAugTrain, PlainAugVal, TRUE, 1, TRUE,
                          <<>>, 1, FALSE, "LMDB")
    /\ cfg_impl = CfgImpl(0, initialized)
    /\ cfg_hyp = CfgHyp(FALSE, FALSE)
    /\ dryrun = FALSE
    /\ rank = 0
    /\ num_threads = 1
    /\ device_count = 0
    /\ rng = 0
    /\ train_len = 1
    /\ valid_len = 1
    /\ pc = "L28"
    /\ CallIdle

NextBarrier ==
    \E p \in Procs :
        \/ EvalCanCreate(p)
        \/ Enter(p)
        \/ ReplicaReleased(p)
        \/ BodyStart(p)
        \/ BodyEnd(p)
        \/ Finally(p)
        \/ MainReleased(p)

SpecBarrier == InitBarrier /\ [][NextBarrier]_vars

\* The processes run: while some process can take a step, one is taken.  No
\* process loops, and the body (the creation of the store) ends, by
\* returning or by raising.
SpecBarrierFair == SpecBarrier /\ WF_vars(NextBarrier)

\* The lists of at most n extra validation names, known and unknown.
ExtraLists(n) == UNION { [1 .. m -> ExtraNames \cup {"STL10"}] : m \in 0 .. n }

\* SpecBuild: _build_datasets over names, statistics, normalization, sizes
\* and extra validation names.
InitBuild ==
    /\ cfg_data \in { CfgData(name, mean, PlainAugTrain, PlainAugVal, normalize, size, TRUE,
                              extra, 1, FALSE, "none") :
                        name \in {"CIFAR10", "CINIC10", "ImageNet", "STL10"},
                        mean \in {None, GivenMean},
                        normalize \in BOOLEAN,
                        size \in 1 .. MaxLen,
                        extra \in ExtraLists(MaxExtra) }
    /\ cfg_impl = CfgImpl(0, FALSE)
    /\ cfg_hyp = CfgHyp(FALSE, FALSE)
    /\ dryrun = FALSE
    /\ GroupOf(FALSE)
    /\ num_threads = 1
    /\ device_count = 0
    /\ rng = 0
    /\ train_len \in 1 .. MaxLen
    /\ valid_len = 1
    /\ pc = "L27"
    /\ BarrierIdle
    /\ CallIdle

NextBuild == Call_build_datasets

SpecBuild == InitBuild /\ [][NextBuild]_vars

\* SpecAug: _parse_data_augmentations over augmentation mappings.
InitAug ==
    /\ cfg_data \in { CfgData("CIFAR10", mean, aug_train, aug_val, normalize, 1, TRUE,
                              <<>>, 1, FALSE, "none") :
                        mean \in {None, GivenMean},
                        aug_train \in Mappings(MaxAug),
                        aug_val \in Mappings(MaxAugVal),
                        normalize \in BOOLEAN }
    /\ cfg_impl = CfgImpl(0, FALSE)
    /\ cfg_hyp = CfgHyp(FALSE, FALSE)
    /\ dryrun = FALSE
    /\ GroupOf(FALSE)
    /\ num_threads = 1
    /\ device_count = 0
    /\ rng = 0
    /\ train_len = 1
    /\ valid_len = 1
    /\ pc = "L155"
    /\ BarrierIdle
    /\ CallIdle

\* line 155: train_transforms, valid_transforms = _parse_data_augmentations(cfg_data)
Call_parse_data_augmentations ==
    /\ pc = "L155"
    /\ parsed' = _parse_data_augmentations(cfg_data, FALSE)
    /\ raised' = parsed'.raised
    /\ pc' = IF parsed'.raised = "" THEN "L158" ELSE "raised"
    /\ UNCHANGED <<envVars, barrierVars, cfgVars, dataVars, trainset, validsets, bound,
                   validset, resolved, loaderVars, useVars>>

NextAug == Call_parse_data_augmentations

SpecAug == InitAug /\ [][NextAug]_vars

\* Spec: construct_dataloader over the wrapper switches, sizes and groups.
Init ==
    /\ cfg_data \in { CfgData("CIFAR10", GivenMean, PlainAugTrain, PlainAugVal, TRUE, size,
                              deterministic, <<"CIFAR10-C">>, batch_size, caching, db_name) :
                        size \in 1 .. MaxLen,
                        deterministic \in BOOLEAN,
                        batch_size \in 1 .. MaxBatch,
                        caching \in BOOLEAN,
                        db_name \in {"none", "LMDB"} }
    /\ \E dist \in BOOLEAN : cfg_impl = CfgImpl(2, dist) /\ GroupOf(dist)
    /\ cfg_hyp = CfgHyp(FALSE, FALSE)
    /\ dryrun \in BOOLEAN
    /\ num_threads = 2
    /\ device_count = 1
    /\ rng = 0
    /\ train_len \in 1 .. MaxLen
    /\ valid_len \in 1 .. MaxValidLen
    /\ pc = "L27"
    /\ BarrierIdle
    /\ CallIdle

Next ==
    \/ Call_build_datasets
    \/ DurableIndex
    \/ DryRun
    \/ Caching
    \/ Workers
    \/ SelectSampler
    \/ Loaders

Spec == Init /\ [][Next]_vars

\* SpecLoad: construct_dataloader over lengths, batch sizes, sampling flags
\* and groups, and the use of the train batch source it returns.
InitLoad ==
    /\ cfg_data \in { CfgData("CIFAR10", GivenMean, PlainAugTrain, PlainAugVal, TRUE,
                              MaxLen, TRUE, <<>>, batch_size, FALSE, "none") :
                        batch_size \in 1 .. MaxBatch }
    /\ \E dist \in BOOLEAN : cfg_impl = CfgImpl(2, dist) /\ GroupOf(dist)
    /\ cfg_hyp \in { CfgHyp(shuffle, replacement) : shuffle \in BOOLEAN, replacement \in BOOLEAN }
    /\ dryrun = FALSE
    /\ num_threads = 2
    /\ device_count = 1
    /\ rng = 0
    /\ train_len \in 1 .. MaxLen
    /\ valid_len = 1
    /\ pc = "L27"
    /\ BarrierIdle
    /\ CallIdle

NextLoad ==
    \/ Next
    \/ \E epoch \in 0 .. MaxEpoch : SetEpoch(epoch)
    \/ BeginPass
    \/ NextBatch

SpecLoad == InitLoad /\ [][NextLoad]_vars

\* SpecWorkers: construct_dataloader over thread budgets, available threads
\* and device counts.
InitWorkers ==
    /\ cfg_data = CfgData("CIFAR10", GivenMean, PlainAugTrain, PlainAugVal, TRUE, 1, TRUE,
                          <<>>, 1, FALSE, "none")
    /\ cfg_impl \in { CfgImpl(threads, FALSE) : threads \in 0 .. MaxThreads }
    /\ cfg_hyp = CfgHyp(FALSE, FALSE)
    /\ dryrun = FALSE
    /\ GroupOf(FALSE)
    /\ num_threads \in 0 .. MaxThreads
    /\ device_count \in 0 .. MaxDevices
    /\ rng = 0
    /\ train_len = 1
    /\ valid_len = 1
    /\ pc = "L27"
    /\ BarrierIdle
    /\ CallIdle

SpecWorkers == InitWorkers /\ [][Next]_vars

\* SpecSubsets: _build_datasets over sizes, train-set lengths, the
\* deterministic_subsets flag and the state of the global generator.
InitSubsets ==
    /\ cfg_data \in { CfgData("CIFAR10", GivenMean, PlainAugTrain, PlainAugVal, TRUE, size,
                              deterministic, <<>>, 1, FALSE, "none") :
                        size \in 0 .. MaxLen,
                        deterministic \in BOOLEAN }
    /\ cfg_impl = CfgImpl(0, FALSE)
    /\ cfg_hyp = CfgHyp(FALSE, FALSE)
    /\ dryrun = FALSE
    /\ GroupOf(FALSE)
    /\ num_threads = 1
    /\ device_count = 0
    /\ rng \in 0 .. MaxRng
    /\ train_len \in 1 .. MaxLen
    /\ valid_len = 1
    /\ pc = "L27"
    /\ BarrierIdle
    /\ CallIdle

SpecSubsets == InitSubsets /\ [][NextBuild]_vars

\* SpecSubsetLoader: construct_dataloader over train-set lengths (no size
\* reduction) and sampling flags, then construct_subset_dataloader over
\* steps, round sizes and numbers of rounds.
InitSubsetLoader ==
    /\ cfg_data = CfgData("CIFAR10", GivenMean, PlainAugTrain, PlainAugVal, TRUE,
                          MaxLen, TRUE, <<>>, MaxBatch, FALSE, "none")
    /\ \E dist \in BOOLEAN : cfg_impl = CfgImpl(2, dist) /\ GroupOf(dist)
    /\ cfg_hyp \in { CfgHyp(shuffle, FALSE) : shuffle \in BOOLEAN }
    /\ dryrun = FALSE
    /\ num_threads = 2
    /\ device_count = 1
    /\ rng = 0
    /\ train_len \in 1 .. MaxLen
    /\ valid_len = 1
    /\ pc = "L27"
    /\ BarrierIdle
    /\ CallIdle

NextSubsetLoader ==
    \/ Next
    \/ Call_construct_subset_dataloader

SpecSubsetLoader == InitSubsetLoader /\ [][NextSubsetLoader]_vars

(***************************************************************************)
(* The claims.                                                             *)
(***************************************************************************)
\* Positions of a process of SpecBarrier at which its with-body has started.
BodyStarted == {"in_body", "L337", "L339", "left"}

\* Positions at which its with-body has finished.
BodyFinished == {"L337", "L339", "left"}

\* C1: in a group of N >= 2 processes no replica (rank # 0) has started the
\* body of main_process_first unless the main process (rank 0) has finished
\* its own body; a process holds can_create = TRUE exactly when it is the
\* main process, so once the main process has passed line 32 it is the one
\* holder, and never are two holders in the body together.
C1_LeaderFirst ==
    (initialized /\ world_size >= 2) =>
        /\ \A p \in Procs \ {0} : ppc[p] \in BodyStarted => ppc[0] \in BodyFinished
        /\ \A p \in DOMAIN can_create : can_create[p] <=> (get_rank(p) = 0)
        /\ 0 \in DOMAIN can_create =>
               { p \in DOMAIN can_create : can_create[p] } = {0}
        /\ Cardinality({ p \in Procs : ppc[p] = "in_body" /\ can_create[p] }) <= 1

\* C1's case: a replica of a group is in the body.
C1_Witness ==
    /\ initialized
    /\ world_size >= 2
    /\ \E p \in Procs \ {0} : ppc[p] = "in_body" /\ ~can_create[p]

\* How many wrapper steps of construct_dataloader the train set has been
\* through: the build (1), the durable index (2), the dry run (3), line 44
\* of the caching (4).
Stage ==
    IF trainset = NoDataset THEN 0
    ELSE IF pc = "L28" THEN 1
    ELSE IF pc = "L36" THEN 2
    ELSE IF pc = "L43" THEN 3
    ELSE 4

Opt(cond, layer) == IF cond THEN <<layer>> ELSE <<>>

\* C2 (as amended): the layers of the train set are, from the inside: the
\* dataset, the size-reduction Subset (made inside _build_datasets when
\* data.size < len), the durable-index wrapper, the dry-run Subset, the
\* cache wrapper, each present exactly when its switch is set and its step
\* has run; the size-reduction Subset holds data.size indices and the
\* dry-run Subset the indices 0..N-1.
C2_WrapperOrder ==
    Stage >= 1 =>
        /\ Layers(trainset) =
               <<"Dataset">>
               \o Opt(cfg_data.size < train_len, "Subset")
               \o Opt(Stage >= 2 /\ cfg_data.db.name = "LMDB", "LMDBDataset")
               \o Opt(Stage >= 3 /\ dryrun, "Subset")
               \o Opt(Stage >= 4 /\ cfg_data.caching, "CachedDataset")
        /\ (Stage = 1 /\ cfg_data.size < train_len) => Len(trainset.indices) = cfg_data.size
        /\ (Stage = 3 /\ dryrun) => trainset.indices = DryrunIndices

\* C2's case: size reduction, durable index and dry run all applied, and
\* construct_dataloader has returned.
C2_Witness ==
    /\ pc = "returned"
    /\ Layers(trainset) = <<"Dataset", "Subset", "LMDBDataset", "Subset">>
    /\ Len(trainset.dataset.dataset.indices) = cfg_data.size

\* C2 as claimed: the order is durable index, dry run, caching, and the size
\* reduction of the train set last, outside the other wrappers.
C2_SizeReductionLast ==
    Stage >= 1 =>
        Layers(trainset) =
            <<"Dataset">>
            \o Opt(Stage >= 2 /\ cfg_data.db.name = "LMDB", "LMDBDataset")
            \o Opt(Stage >= 3 /\ dryrun, "Subset")
            \o Opt(Stage >= 4 /\ cfg_data.caching, "CachedDataset")
            \o Opt(Stage >= 4 /\ cfg_data.size < train_len, "Subset")

\* C3 as claimed: with data.caching set, the caching step (lines 43-45) goes
\* on to line 47 without an exception, having wrapped the train set and,
\* under every key, the dataset stored under that key, the keys unchanged.
C3_CachingWrapsAll ==
    [][(pc = "L43" /\ cfg_data.caching) =>
          /\ pc' = "L47"
          /\ raised' = ""
          /\ trainset' = CachedDataset(trainset, cfg_impl.threads, cfg_impl.pin_memory)
          /\ validsets' = [i \in DOMAIN validsets |->
                              [k |-> validsets[i].k,
                               v |-> CachedDataset(validsets[i].v, cfg_impl.threads,
                                                   cfg_impl.pin_memory)]]
          /\ \A i, j \in DOMAIN validsets' :
                 i # j => validsets'[i].v.dataset # validsets'[j].v.dataset]_vars

\* The last step of a pipeline.
LastStep(transform) == transform.transforms[Len(transform.transforms)]

\* C4 as claimed: with data.normalize set, _build_datasets completes (for a
\* known name and known extra names) and the last step of the train and of
\* every validation pipeline is Normalize with the statistics the resolver
\* returned, which are not None.
C4_NormalizeUsesResolvedStats ==
    ( /\ pc # "L27"
      /\ cfg_data.normalize
      /\ cfg_data.name \in DatasetNames
      /\ \A i \in DOMAIN cfg_data.extra_validation : cfg_data.extra_validation[i] \in ExtraNames )
    => /\ raised = ""
       /\ resolved.data_mean # None
       /\ LastStep(trainset.transform) = Normalize(resolved.data_mean, resolved.data_std)
       /\ \A i \in DOMAIN validsets :
              LastStep(validsets[i].v.transform) =
                  Normalize(resolved.data_mean, resolved.data_std)

\* A dataset is the dry-run Subset of n indices: its indices are 0..n-1 in
\* order, and each names a sample of the dataset underneath.
IsDryrunSubset(dataset, n) ==
    /\ dataset.kind = "Subset"
    /\ dataset.indices = [i \in 1 .. n |-> i - 1]
    /\ len(dataset) = n
    /\ \A i \in DOMAIN dataset.indices : dataset.indices[i] < len(dataset.dataset)

\* C5 as claimed: with dryrun set, when construct_dataloader returns, the
\* train set and every validation set are Subsets of the indices 0..N-1,
\* N = data.batch_size * world size (1 without a group), every index naming
\* a sample of the dataset underneath.
C5_DryrunSubsets ==
    (dryrun /\ pc = "returned") =>
        LET N == cfg_data.batch_size * (IF initialized THEN world_size ELSE 1)
        IN  /\ IsDryrunSubset(trainset, N)
            /\ \A i \in DOMAIN validsets : IsDryrunSubset(validsets[i].v, N)

\* The batches one full pass must yield when the sampler yields n indices
\* and a batch holds b of them.
AllOfSize(batches, b) == \A i \in DOMAIN batches : batches[i] = b

\* C6 (as amended): with L = len(trainset) >= 1, a batch holds min(B, L)
\* indices; one full pass yields floor(L / min(B, L)) batches under the
\* sequential and the random samplers (with or without replacement), and
\* floor(ceil(L / W) / min(B, L)) batches in each process under the sharded
\* sampler of a group of W processes.
C6_BatchesPerPass ==
    pass.state = "exhausted" =>
        LET L == len(trainset)
            b == IF cfg_data.batch_size <= L THEN cfg_data.batch_size ELSE L
            shard == IF cfg_impl.dist THEN (L + world_size - 1) \div world_size ELSE L
        IN  /\ Len(pass.batches) = shard \div b
            /\ AllOfSize(pass.batches, b)

\* C6's case: a full pass in a process of a group of two that yielded a batch.
C6_Witness ==
    /\ pass.state = "exhausted"
    /\ cfg_impl.dist
    /\ world_size = 2
    /\ Len(pass.batches) >= 1

\* C6 as claimed: floor(L / min(B, L)) batches of min(B, L) under every
\* sampling strategy, the sharded one with any world size included.
C6_FloorOfLOverB ==
    pass.state = "exhausted" =>
        LET L == len(trainset)
            b == IF cfg_data.batch_size <= L THEN cfg_data.batch_size ELSE L
        IN  /\ Len(pass.batches) = L \div b
            /\ AllOfSize(pass.batches, b)

\* The resolved operations of a mapping, in iteration order.
Resolved(cfg_dict, cfg) ==
    IF cfg_dict.has_keys
    THEN [i \in DOMAIN cfg_dict.items |-> ResolveEntry(cfg_dict.items[i], cfg).transform]
    ELSE <<>>

\* A pipeline is the n operations of its mapping in order, then ToTensor,
\* then Normalize exactly when data.normalize is set, and nothing more.
IsPipelineOf(pipeline, cfg_dict, cfg) ==
    LET ops == Resolved(cfg_dict, cfg)
        n == Len(ops)
        steps == pipeline.transforms
    IN  /\ pipeline.composed
        /\ Len(steps) = n + 1 + (IF cfg.normalize THEN 1 ELSE 0)
        /\ \A i \in 1 .. n : steps[i] = ops[i]
        /\ steps[n + 1].name = "ToTensor"
        /\ cfg.normalize => steps[n + 2] = Normalize(cfg.mean, cfg.std)

\* C7: the pipelines _parse_data_augmentations returns for the train and the
\* validation mapping are the resolved operations of the mapping in its
\* iteration order, then tensor conversion, then the normalization step if
\* and only if data.normalize is set.
C7_PipelineOrder ==
    pc = "L158" =>
        /\ IsPipelineOf(parsed.train, cfg_data.augmentations_train, cfg_data)
        /\ IsPipelineOf(parsed.valid, cfg_data.augmentations_val, cfg_data)

\* C7's case: a train mapping of two keys, Resize before ToRGB, parsed with
\* data.normalize set.
C7_Witness ==
    /\ pc = "L158"
    /\ cfg_data.normalize
    /\ Len(cfg_data.augmentations_train.items) = 2
    /\ cfg_data.augmentations_train.items[1].key = "Resize"
    /\ cfg_data.augmentations_train.items[2].key = "ToRGB"
    /\ Len(parsed.train.transforms) = 4

\* C8: the train sampler is the sharded one when impl.setup.dist is set
\* (whatever shuffle is), else the random one with the configured
\* replacement when hyp.shuffle is set, else the sequential one; set_epoch
\* leaves the two non-distributed samplers as constructed, and stores the
\* epoch in the sharded one.
C8_SamplerSelection ==
    pc \in {"L66", "returned"} =>
        /\ cfg_impl.dist =>
               /\ train_sampler.kind = "DistributedSampler"
               /\ train_sampler.shuffle = cfg_hyp.shuffle
               /\ train_sampler.epoch = IF set_epoch_arg = -1 THEN 0 ELSE set_epoch_arg
        /\ (~cfg_impl.dist /\ cfg_hyp.shuffle) =>
               /\ train_sampler.kind = "RandomSampler"
               /\ train_sampler.replacement = cfg_hyp.sample_with_replacement
               /\ train_sampler.epoch = 0
        /\ (~cfg_impl.dist /\ ~cfg_hyp.shuffle) =>
               /\ train_sampler.kind = "SequentialSampler"
               /\ train_sampler.epoch = 0
        /\ train_sampler.patched <=> ~cfg_impl.dist

\* C8's case: set_epoch(1) has been called on a random sampler.
C8_Witness ==
    /\ pc = "returned"
    /\ set_epoch_arg = 1
    /\ train_sampler.kind = "RandomSampler"
    /\ train_sampler.replacement

\* The worker count of every batch source construct_dataloader returned.
WorkerCounts ==
    {trainloader.num_workers} \cup { validloaders[i].v.num_workers : i \in DOMAIN validloaders }

\* floor(min(a, t) / max(1, d)) = w, without the division.
IsFloorOfRatio(w, a, t, d) ==
    LET m == IF a <= t THEN a ELSE t
        g == IF d >= 1 THEN d ELSE 1
    IN  w * g <= m /\ m < (w + 1) * g

\* C9 (as amended): the worker count of every batch source is never
\* negative; it is floor(min(available, threads) / max(1, devices)) when
\* impl.threads > 0 and more than one thread is available, and 0 otherwise
\* (so one available thread gives 0 workers).
C9_WorkerCount ==
    pc = "returned" =>
        \A w \in WorkerCounts :
            /\ w >= 0
            /\ IF cfg_impl.threads > 0 /\ num_threads > 1
               THEN IsFloorOfRatio(w, num_threads, cfg_impl.threads, device_count)
               ELSE w = 0

\* C9's case: one available thread, a positive budget, at most one device.
C9_Witness ==
    /\ pc = "returned"
    /\ num_threads = 1
    /\ cfg_impl.threads >= 1
    /\ device_count <= 1
    /\ WorkerCounts = {0}

\* C9 as claimed: the worker count is floor(min(available, threads) /
\* max(1, devices)) for all inputs.
C9_FormulaForAllInputs ==
    pc = "returned" =>
        \A w \in WorkerCounts :
            /\ w >= 0
            /\ IsFloorOfRatio(w, num_threads, cfg_impl.threads, device_count)

\* The place of the last occurrence of a name in a list.
LastIndex(list, name) ==
    CHOOSE i \in DOMAIN list :
        list[i] = name /\ \A j \in DOMAIN list : list[j] = name => j <= i

Names(list) == { list[i] : i \in DOMAIN list }

\* C10: for a known primary name, when every extra name is known the keys
\* of the returned mapping are the primary name and the extra names, one
\* item each, and the item of a key is the dataset of the last occurrence of
\* the name among the extras, or the primary validation set when the name is
\* no extra; when an extra name is unknown the call raises and returns no
\* mapping.
C10_ExtraValidationMerge ==
    (pc # "L27" /\ cfg_data.name \in DatasetNames) =>
        LET extra == cfg_data.extra_validation
        IN  IF Names(extra) \subseteq ExtraNames
            THEN raised = "" =>
                   /\ Keys(validsets) = {cfg_data.name} \cup Names(extra)
                   /\ Len(validsets) = Cardinality(Keys(validsets))
                   /\ \A k \in Keys(validsets) :
                          GetItem(validsets, k).id =
                              IF k \in Names(extra) THEN 2 + LastIndex(extra, k) ELSE 2
            ELSE raised # "" /\ validsets = <<>> /\ pc = "raised"

\* C10's case: the primary name is also an extra name, given twice, and the
\* build returned.
C10_Witness ==
    /\ pc = "L28"
    /\ raised = ""
    /\ cfg_data.extra_validation = <<cfg_data.name, cfg_data.name>>
    /\ Len(validsets) = 1

\* The train set a run of _build_datasets over the same configuration
\* returns when the global generator is in state g.
RunWith(g) == _build_datasets(cfg_data, ~cfg_impl.dist, g).trainset

\* Pairwise distinct indices of 0..n-1.
DistinctIndicesBelow(indices, n) ==
    /\ \A i \in DOMAIN indices : indices[i] \in 0 .. (n - 1)
    /\ \A i, j \in DOMAIN indices : indices[i] = indices[j] => i = j

\* C11: when _build_datasets has returned with data.size < len(trainset)
\* and data.deterministic_subsets set, the train set is a Subset whose
\* ordered index list is the one every other run over the same dataset and
\* size produces, whatever the state of the global generator in that run,
\* and the list holds exactly data.size pairwise distinct indices of
\* 0..len(trainset)-1; with the flag unset (and at least one index to draw)
\* some state of the global generator produces another list.
C11_DeterministicSubsets ==
    (pc = "L28" /\ cfg_data.size < train_len) =>
        /\ trainset.kind = "Subset"
        /\ Len(trainset.indices) = cfg_data.size
        /\ DistinctIndicesBelow(trainset.indices, train_len)
        /\ IF cfg_data.deterministic_subsets
           THEN \A g \in 0 .. MaxRng : RunWith(g).indices = trainset.indices
           ELSE cfg_data.size >= 1 =>
                    \E g \in 0 .. MaxRng : RunWith(g).indices # trainset.indices

\* C11's case: a deterministic subset of two of three samples, drawn in a
\* run whose global generator would have drawn another list.
C11_Witness ==
    /\ pc = "L28"
    /\ cfg_data.deterministic_subsets
    /\ train_len = 3
    /\ cfg_data.size = 2
    /\ trainset.kind = "Subset"
    /\ SubSeq(randperm(train_len, rng), 1, cfg_data.size) # trainset.indices

\* Positions at which a process has called barrier() and waits in it: line
\* 335 for a replica, line 339 for the main process.
InBarrier == {"L335", "L339"}

AllLeft == \A p \in Procs : ppc[p] = "left"

\* C12: in a group, a step that takes a process into barrier() is its first
\* such step, taken by a replica on entering (line 335, before its body) and
\* by the main process from its finally clause (line 339, after its body);
\* every process that has left the context manager has called barrier();
\* every process eventually leaves the context manager; and when the body
\* of the main process has raised, the main process still calls barrier(),
\* so that it opens for the replicas.
C12_BarrierOnceAndAllLeave ==
    /\ [][\A p \in Procs :
            (ppc'[p] # ppc[p] /\ ppc'[p] \in InBarrier) =>
                /\ p \notin arrived
                /\ p \in arrived'
                /\ IF get_rank(p) = 0
                   THEN ppc[p] = "L337" /\ ppc'[p] = "L339"
                   ELSE ppc[p] = "L33" /\ ppc'[p] = "L335"]_vars
    /\ [](initialized => \A p \in Procs : ppc[p] = "left" => p \in arrived)
    /\ (initialized ~> AllLeft)
    /\ ((initialized /\ 0 \in body_raised) ~> (arrived = Procs /\ AllLeft))

\* C12's case: every process of a group of at least two has left the
\* context manager after the body of the main process raised.
C12_Witness ==
    /\ initialized
    /\ world_size >= 2
    /\ 0 \in body_raised
    /\ arrived = Procs
    /\ AllLeft

\* The indices construct_subset_dataloader selects for step s under the
\* cfg of the latest call.
BlockOf(s) ==
    construct_subset_dataloader(trainloader, subset_cfg, s).localloader.dataset.indices

\* The contiguous block [r * size, (r + 1) * size).
Round(r, size) == [i \in 1 .. size |-> r * size + (i - 1)]

Elements(seq) == { seq[i] : i \in DOMAIN seq }

\* C13 as claimed: after a call of construct_subset_dataloader for step s
\* that returned, the selected indices are the block [r * size, (r + 1) *
\* size) with r = s mod rounds; the block of any other step is the same
\* when the steps are congruent modulo rounds and disjoint otherwise; the
\* next step selects the next round, cyclically; and every selected index
\* is below the length of the large dataset.
C13_SequentialRounds ==
    (step >= 0 /\ subset_raised = "") =>
        LET size == subset_cfg.data.size
            rounds == subset_cfg.data.db.rounds
            r == step % rounds
            ids == localloader.dataset.indices
        IN  /\ ids = Round(r, size)
            /\ \A s2 \in 0 .. MaxStep :
                   IF s2 % rounds = r
                   THEN BlockOf(s2) = ids
                   ELSE Elements(BlockOf(s2)) \cap Elements(ids) = {}
            /\ BlockOf(step + 1) = Round((r + 1) % rounds, size)
            /\ \A i \in DOMAIN ids : ids[i] < len(trainloader.dataset)

====
